---- MODULE Spec2Model ----
(***************************************************************************)
(* A model of the Rize MCP bridge: the GraphQL client (rize_client.py) and *)
(* the tool dispatcher (server_simple.py).                                 *)
(*                                                                         *)
(* Texts are sequences of string tokens; the first token of a tool result  *)
(* is its status tag ("[ERROR]", "[OK]", ...).  The Chinese and emoji      *)
(* literals of the source are written as ASCII tokens prefixed "zh:".      *)
(* JSON values are tagged records (null / str / int / bool / time / list /  *)
(* obj) so that a missing key, a null value and an empty collection stay   *)
(* distinct, as in Python.  A Python evaluation that may raise is a record *)
(* with a field exc: [exc |-> FALSE, val |-> v] or                         *)
(* [exc |-> TRUE, class, site, msg].  A block whose later steps run only   *)
(* when the earlier ones did not raise is written with Try and LAMBDA.     *)
(***************************************************************************)
EXTENDS Integers, Sequences, FiniteSets, TLC

\* ------------------------------------------------------------------ bounds
\* entries of an `errors` collection in an upstream body
MaxErrors == 2
\* sessions the upstream may hold as its current session
NumSessions == 2
\* project edges in a projects listing
MaxProjects == 2
\* calendar days the time strings of a call range over
MaxDate == 2
\* length of the longest configured API token
MaxTokenLen == 12

\* ------------------------------------------------------- program constants
MinDurationMinutes == 5
MaxDurationMinutes == 480
DefaultDurationMinutes == 90
DefaultLimit == 10
RedactHead == 8
RedactTail == 4

\* ------------------------------------------------------------- JSON values
JNull == [t |-> "null"]
\* a string is its sequence of tokens; "" is the empty sequence
JStr(s) == [t |-> "str", v |-> s]
Str(tok) == JStr(<<tok>>)
JInt(n) == [t |-> "int", v |-> n]
JBool(b) == [t |-> "bool", v |-> b]
\* a string holding a timestamp text (see TimeStr below)
JTime(ts) == [t |-> "time", v |-> ts]
JList(q) == [t |-> "list", v |-> q]
JObj(f) == [t |-> "obj", v |-> f]
EmptyDict == JObj([k \in {} |-> JNull])

\* Python truthiness of a JSON value
Truthy(j) ==
    CASE j.t = "null" -> FALSE
      [] j.t = "str" -> j.v # <<>>
      [] j.t = "int" -> j.v # 0
      [] j.t = "bool" -> j.v
      [] j.t = "time" -> j.v.kind # "empty"
      [] j.t = "list" -> Len(j.v) > 0
      [] j.t = "obj" -> DOMAIN j.v # {}

\* ----------------------------------------------------- raising evaluation
Return(v) == [exc |-> FALSE, val |-> v]
Raise(class, site, msg) == [exc |-> TRUE, class |-> class, site |-> site, msg |-> msg]

\* the rest of a block runs only when the step before it did not raise
Try(x, F(_)) == IF x.exc THEN x ELSE F(x.val)

\* x.get(k, default) on a JSON value: AttributeError unless x is a dict
DictGet(x, k, default) ==
    IF x.t # "obj"
    THEN Raise("AttributeError", "get", <<"object has no attribute 'get'">>)
    ELSE Return(IF k \in DOMAIN x.v THEN x.v[k] ELSE default)

\* x.get(k1, {}).get(k2, {}) as the handlers chain it
Chain2(x, k1, k2) ==
    Try(DictGet(x, k1, EmptyDict), LAMBDA a : DictGet(a, k2, EmptyDict))

\* variant: a key counts only when its value is truthy
KeyInWithValue(k, x) ==
    CASE x.t = "obj" -> Return(k \in DOMAIN x.v /\ Truthy(x.v[k]))
      [] x.t = "list" ->
            Return(\E i \in 1..Len(x.v) : x.v[i].t = "str" /\ x.v[i].v = <<k>>)
      [] x.t = "str" -> Return(FALSE)
      [] OTHER -> Raise("TypeError", "in", <<"argument of type 'NoneType' is not iterable">>)

\* `k in x`: a key of a dict, an element of a list, TypeError on None
KeyIn(k, x) ==
    CASE x.t = "obj" -> Return(k \in DOMAIN x.v)
      [] x.t = "list" ->
            Return(\E i \in 1..Len(x.v) : x.v[i].t = "str" /\ x.v[i].v = <<k>>)
      [] x.t = "str" -> Return(FALSE)
      [] OTHER -> Raise("TypeError", "in", <<"argument of type 'NoneType' is not iterable">>)

\* ------------------------------------------------------------------- texts
\* str(x) of a JSON scalar inside an f-string
PyStr(j) ==
    CASE j.t = "null" -> <<"None">>
      [] j.t = "str" -> j.v
      [] j.t = "int" -> <<ToString(j.v)>>
      [] j.t = "bool" -> IF j.v THEN <<"True">> ELSE <<"False">>
      [] j.t = "time" -> <<"<timestamp>">>
      [] j.t = "list" -> <<"[...]">>
      [] j.t = "obj" -> <<"{...}">>

RECURSIVE JoinTokens(_, _)
JoinTokens(q, sep) ==
    IF Len(q) = 0 THEN <<>>
    ELSE IF Len(q) = 1 THEN <<q[1]>>
    ELSE <<q[1], sep>> \o JoinTokens(Tail(q), sep)

\* repr of a list of strings
ReprList(q) == <<"[">> \o JoinTokens(q, ", ") \o <<"]">>

\* tokens made only of the characters rstrip("; ") removes
StripTokens == {"; ", ";", " ", ""}

RECURSIVE RStrip(_)
RStrip(q) ==
    IF Len(q) > 0 /\ q[Len(q)] \in StripTokens
    THEN RStrip(SubSeq(q, 1, Len(q) - 1))
    ELSE q

\* ------------------------------------------------------------ time strings
\* A timestamp text: kind "empty" is "", "date" is YYYY-MM-DD, "datetime" is
\* YYYY-MM-DD<sep>HH:MM[:SS[.us]][Z], "words" is free text such as
\* "tomorrow 9am".  date is the ordinal of the calendar day; an absent field
\* is -1.
TimeStr(kind, date, sep, hh, mm, ss, us, z) ==
    [kind |-> kind, date |-> date, sep |-> sep, hh |-> hh, mm |-> mm,
     ss |-> ss, us |-> us, z |-> z]
EmptyTime == TimeStr("empty", 0, "", -1, -1, -1, -1, FALSE)
WordsTime == TimeStr("words", 0, "", -1, -1, -1, -1, FALSE)

DateTime(date, hh, mm, ss, us) ==
    [date |-> date, hh |-> hh, mm |-> mm, ss |-> ss, us |-> us]

FieldsInRange(ts) ==
    /\ ts.date >= 1
    /\ ts.hh \in 0..23
    /\ ts.mm \in 0..59
    /\ ts.ss \in -1..59

\* datetime.strptime(s, fmt) succeeds; fmt is [sep, seconds, z]
StrptimeMatches(ts, fmt) ==
    /\ ts.kind = "datetime"
    /\ ts.sep = fmt.sep
    /\ (ts.ss # -1) = fmt.seconds
    /\ ts.us = -1
    /\ ts.z = fmt.z
    /\ FieldsInRange(ts)

formats ==
    << [sep |-> "T", seconds |-> TRUE, z |-> FALSE],
       [sep |-> " ", seconds |-> TRUE, z |-> FALSE],
       [sep |-> "T", seconds |-> FALSE, z |-> FALSE],
       [sep |-> " ", seconds |-> FALSE, z |-> FALSE],
       [sep |-> "T", seconds |-> TRUE, z |-> TRUE] >>

\* time_str.replace('Z', '')
ReplaceZ(ts) == [ts EXCEPT !.z = FALSE]

\* datetime.fromisoformat(s) succeeds
FromIsoformatMatches(ts) ==
    \/ ts.kind = "date" /\ ts.date >= 1 /\ ~ts.z
    \/ ts.kind = "datetime" /\ FieldsInRange(ts) /\ ~ts.z /\ ts.us \in -1..999999

Parsed(ts) ==
    IF ts.kind = "date"
    THEN DateTime(ts.date, 0, 0, 0, 0)
    ELSE DateTime(ts.date, ts.hh, ts.mm,
                  IF ts.ss = -1 THEN 0 ELSE ts.ss,
                  IF ts.us = -1 THEN 0 ELSE ts.us)

\* the format loop and the fromisoformat fallback on the string without Z
ParseStripped(s) ==
    IF \E i \in 1..Len(formats) : StrptimeMatches(s, formats[i])
    THEN Return(Parsed(s))
    ELSE IF FromIsoformatMatches(s)
    THEN Return(Parsed(s))
    ELSE Raise("ValueError", "parse_time_string",
               <<"Cannot parse time string: ", "<time_str>">>)

parse_time_string(time_str) == ParseStripped(ReplaceZ(time_str))

\* dt + timedelta(minutes=n)
AddMinutes(dt, n) ==
    LET total == dt.date * 1440 + dt.hh * 60 + dt.mm + n
    IN  [dt EXCEPT !.date = total \div 1440,
                   !.hh = (total % 1440) \div 60,
                   !.mm = total % 60]

\* dt.isoformat() + "Z"
IsoformatZ(dt) ==
    TimeStr("datetime", dt.date, "T", dt.hh, dt.mm, dt.ss,
            IF dt.us = 0 THEN -1 ELSE dt.us, TRUE)

\* ------------------------------------------------------ upstream responses
\* What one POST ends with: a transport failure, or an HTTP response with a
\* status and a body (json FALSE: the body is not JSON).
Resp(transport, status, json, body) ==
    [transport |-> transport, status |-> status, json |-> json, body |-> body]
NoResp == Resp("none", 0, FALSE, JNull)

\* httpx.Response.is_success, which raise_for_status tests
is_success(status) == 200 <= status /\ status <= 299

\* ---------------------------------------------------------- RizeClient
\* variant: a client that is constructed whatever the token
RizeClientWithoutCheck(api_token) == Return([api_token |-> api_token])

\* RizeClient.__init__: the token comes from the environment
RizeClient(api_token) ==
    IF api_token = <<>>
    THEN Raise("ValueError", "init",
               <<"zh:", "Rize API Token is not set", " RIZE_API_TOKEN=your_token_here">>)
    ELSE Return([api_token |-> api_token])

\* variant: the slice s[:n] keeps one character more
PyHeadThrough(q, n) == SubSeq(q, 1, IF Len(q) < n + 1 THEN Len(q) ELSE n + 1)

\* variant: the head slice keeps half as many characters
PyHeadHalf(q, n) == SubSeq(q, 1, IF Len(q) < n \div 2 THEN Len(q) ELSE n \div 2)

\* s[:n] and s[-n:] of Python
PyHead(q, n) == SubSeq(q, 1, IF Len(q) < n THEN Len(q) ELSE n)
PyTail(q, n) == SubSeq(q, IF Len(q) < n THEN 1 ELSE Len(q) - n + 1, Len(q))

\* the error message loop of execute_query over result["errors"]
RECURSIVE ErrorMessages(_)
ErrorMessages(errs) ==
    IF Len(errs) = 0 THEN Return(<<>>)
    ELSE Try(DictGet(errs[1], "message", Str("zh:unknown error")), LAMBDA m :
         Try(ErrorMessages(Tail(errs)), LAMBDA rest :
         Return(PyStr(m) \o <<"; ">> \o rest)))

\* the check of the parsed body for GraphQL errors
CheckGraphQLErrors(result) ==
    Try(KeyIn("errors", result), LAMBDA has :
        IF ~has THEN Return(result)
        ELSE IF result.v["errors"].t # "list"
        THEN Raise("TypeError", "for", <<"object is not iterable">>)
        ELSE Try(ErrorMessages(result.v["errors"].v), LAMBDA msgs :
             Raise("ValueError", "graphql", RStrip(<<"zh:GraphQL error:", " ">> \o msgs))))

\* the body of the try block of execute_query
ExecuteTry(resp) ==
    IF resp.transport # "response"
    THEN Raise(resp.transport, "post", <<resp.transport>>)
    ELSE IF ~is_success(resp.status)
    THEN Raise("HTTPStatusError", "raise_for_status", <<ToString(resp.status)>>)
    ELSE IF ~resp.json
    THEN Raise("JSONDecodeError", "json", <<"Expecting value">>)
    ELSE CheckGraphQLErrors(resp.body)

\* variant: a read timeout is not among the request errors
RequestErrorsButReadTimeout == {"ConnectTimeout", "ConnectError"}

\* httpx's exception classes below httpx.RequestError
RequestErrors == {"ConnectTimeout", "ReadTimeout", "ConnectError"}

\* variant: the rate-limit status falls under the server errors
StatusErrorFrom429(self, status) ==
    IF status = 401
    THEN Raise("ValueError", "authentication",
               <<"zh:API authentication failed", "zh:current token: ">>
                   \o PyHead(self.api_token, RedactHead) \o <<"...">>
                   \o PyTail(self.api_token, RedactTail))
    ELSE IF status >= 429
    THEN Raise("ConnectionError", "server_error",
               <<"zh:Rize server error (", ToString(status), ")">>)
    ELSE Raise("ValueError", "http",
               <<"zh:HTTP error ", ToString(status), ": ", "<response.text>">>)

\* the except httpx.HTTPStatusError clause
StatusError(self, status) ==
    IF status = 401
    THEN Raise("ValueError", "authentication",
               <<"zh:API authentication failed", "zh:current token: ">>
                   \o PyHead(self.api_token, RedactHead) \o <<"...">>
                   \o PyTail(self.api_token, RedactTail))
    ELSE IF status = 429
    THEN Raise("ValueError", "rate_limit", <<"zh:API rate limit exceeded">>)
    ELSE IF status >= 500
    THEN Raise("ConnectionError", "server_error",
               <<"zh:Rize server error (", ToString(status), ")">>)
    ELSE Raise("ValueError", "http",
               <<"zh:HTTP error ", ToString(status), ": ", "<response.text>">>)

\* the except clauses of execute_query, in their order; r is what the try
\* block ended with
ExecuteExcept(self, resp, r) ==
    IF ~r.exc THEN r
    ELSE IF r.class = "ConnectTimeout"
    THEN Raise("ConnectionError", "connect_timeout",
               <<"zh:connecting to the Rize API timed out">>)
    ELSE IF r.class = "HTTPStatusError"
    THEN StatusError(self, resp.status)
    ELSE IF r.class \in RequestErrors
    THEN Raise("ConnectionError", "network", <<"zh:network request failed: ">> \o r.msg)
    ELSE Raise("ValueError", "unknown", <<"zh:unknown error: ">> \o r.msg)

\* RizeClient.execute_query against the response the POST ends with
execute_query(self, resp) == ExecuteExcept(self, resp, ExecuteTry(resp))

\* -------------------------------------------------------- upstream service
\* The upstream is a black box.  currentSession (a state variable) is the
\* index of its running session, 0 for none.  How it answers one request is
\* a choice c: a transport failure, a non-2xx status, or a 2xx body whose
\* shape (c.shape) and mutation payload (c.pshape) vary.
SessionObj(i) ==
    JObj([id |-> Str(ToString(i)),
          title |-> IF i = 1 THEN Str("Deep work") ELSE JNull,
          type |-> Str("focus"),
          startTime |-> JStr(<<"start-of-", ToString(i)>>)])

StoppedSessionObj(i) ==
    JObj([id |-> Str(ToString(i)),
          type |-> Str("focus"),
          startTime |-> JStr(<<"start-of-", ToString(i)>>),
          endTime |-> JStr(<<"end-of-", ToString(i)>>)])

ProjectNode(i) ==
    JObj([id |-> Str(ToString(i)),
          name |-> JStr(<<"project-", ToString(i)>>),
          emoji |-> IF i = 1 THEN Str("<emoji>") ELSE JNull])

ProjectEdges(n) == [i \in 1..n |-> JObj([node |-> ProjectNode(i)])]

ErrorEntries == { JObj([message |-> Str("m1")]), EmptyDict }

ErrorSeqs == UNION { [1..n -> ErrorEntries] : n \in 0..MaxErrors }

ErrorValues == { JNull } \cup { JList(q) : q \in ErrorSeqs }

FailStatuses == {302, 400, 401, 403, 429, 499, 500, 503}
SuccessStatuses == {200, 201}

PayloadShapes ==
    { "object", "object_errors_empty", "object_errors_null", "errors_only",
      "null_object", "payload_null", "payload_empty" }

Choice(transport, status, shape, errors, pshape, n, new) ==
    [transport |-> transport, status |-> status, shape |-> shape,
     errors |-> errors, pshape |-> pshape, n |-> n, new |-> new]

TransportFailures == {"ConnectTimeout", "ReadTimeout", "ConnectError"}

Choices ==
    { Choice(tr, 0, "none", JNull, "object", 0, 1) : tr \in TransportFailures }
    \cup { Choice("response", st, "raw", JNull, "object", 0, 1) : st \in FailStatuses }
    \cup { Choice("response", st, sh, JNull, "object", 0, 1) :
             st \in SuccessStatuses, sh \in {"not_json", "data_null", "empty"} }
    \cup { Choice("response", 200, sh, e, "object", 0, 1) :
             sh \in {"errors", "errors_and_data"}, e \in ErrorValues }
    \cup { Choice("response", 200, "ok", JNull, ps, 0, 1) : ps \in PayloadShapes }
    \cup { Choice("response", 200, "ok", JNull, "object", n, new) :
             n \in 0..MaxProjects, new \in 1..NumSessions }

\* the object a mutation or query of field op answers with
PayloadObject(op, variables, c, cur) ==
    CASE op = "currentUser" -> JObj([email |-> Str("user@example.com")])
      [] op = "projects" -> JObj([edges |-> JList(ProjectEdges(c.n))])
      [] op = "currentSession" -> IF cur = 0 THEN JNull ELSE SessionObj(cur)
      [] op = "createProject" ->
            JObj([id |-> Str("p-new"), name |-> variables.v["input"].v["name"]]
                 @@ IF "emoji" \in DOMAIN variables.v["input"].v
                    THEN [emoji |-> variables.v["input"].v["emoji"]]
                    ELSE [emoji |-> JNull])
      [] op = "startSessionTimer" ->
            JObj([id |-> Str(ToString(c.new)), type |-> Str("focus"),
                  startTime |-> JStr(<<"start-of-", ToString(c.new)>>)])
      [] op = "stopSessionTimer" -> IF cur = 0 THEN JNull ELSE StoppedSessionObj(cur)
      [] op = "createSession" ->
            JObj([id |-> Str("s-new"), type |-> Str("focus"),
                  startTime |-> JStr(<<"<startTime>">>),
                  endTime |-> JStr(<<"<endTime>">>)]
                 @@ IF "title" \in DOMAIN variables.v["input"].v["args"].v
                    THEN [title |-> variables.v["input"].v["args"].v["title"]]
                    ELSE [title |-> JNull])
      [] op = "tasks" -> JObj([edges |-> JList(<<>>)])
      [] op \in {"updateProject", "createTask", "updateTask", "updateSession"} ->
            JObj([id |-> Str("o-1")])

ObjectKey(op) ==
    CASE op \in {"createProject", "updateProject"} -> "project"
      [] op \in {"createTask", "updateTask"} -> "task"
      [] OTHER -> "session"

IsMutation(op) ==
    op \in {"createProject", "updateProject", "createTask", "updateTask",
            "startSessionTimer", "stopSessionTimer", "createSession", "updateSession"}

\* the value of data.<op> in a 2xx body, o being the object and k its key
PayloadWith(op, c, o, k) ==
    IF ~IsMutation(op)
    THEN CASE c.pshape \in {"null_object", "payload_null"} -> JNull
           [] c.pshape = "payload_empty" -> EmptyDict
           [] OTHER -> o
    ELSE CASE c.pshape = "object" -> JObj([x \in {k} |-> o])
           [] c.pshape = "object_errors_empty" ->
                 JObj([x \in {k, "errors"} |-> IF x = k THEN o ELSE JList(<<>>)])
           [] c.pshape = "object_errors_null" ->
                 JObj([x \in {k, "errors"} |-> IF x = k THEN o ELSE JNull])
           [] c.pshape = "errors_only" ->
                 JObj([x \in {k, "errors"} |->
                        IF x = k THEN JNull
                        ELSE JList(<<JObj([message |-> Str("m1")])>>)])
           [] c.pshape = "null_object" -> JObj([x \in {k} |-> JNull])
           [] c.pshape = "payload_null" -> JNull
           [] c.pshape = "payload_empty" -> EmptyDict

Payload(op, variables, c, cur) ==
    PayloadWith(op, c, PayloadObject(op, variables, c, cur), ObjectKey(op))

\* a 2xx body of the shape c.shape around the payload p
Body(op, c, p) ==
    CASE c.shape = "data_null" -> JObj([data |-> JNull])
      [] c.shape = "empty" -> EmptyDict
      [] c.shape = "errors" -> JObj([errors |-> c.errors])
      [] c.shape = "errors_and_data" ->
            JObj([errors |-> c.errors, data |-> JObj([x \in {op} |-> p])])
      [] c.shape = "ok" -> JObj([data |-> JObj([x \in {op} |-> p])])

\* the upstream's answer to one request
Respond(op, variables, c, cur) ==
    IF c.transport # "response" THEN Resp(c.transport, 0, FALSE, JNull)
    ELSE IF c.shape \in {"raw", "not_json"} THEN Resp("response", c.status, FALSE, JNull)
    ELSE Resp("response", c.status, TRUE, Body(op, c, Payload(op, variables, c, cur)))

\* the mutation took effect upstream: the answer carries the object
Applied(c) ==
    /\ c.transport = "response"
    /\ c.shape = "ok"
    /\ c.pshape \in {"object", "object_errors_empty", "object_errors_null"}

\* the upstream's running session after it served the requests of one call
UpstreamAfter(requests, c, cur) ==
    IF Len(requests) = 0 \/ ~Applied(c) THEN cur
    ELSE CASE requests[1].op = "stopSessionTimer" -> 0
           [] requests[1].op = "startSessionTimer" -> c.new
           [] OTHER -> cur

\* ------------------------------------------------- RizeClient operations
\* the failure a client step ended with: its class, the place that raised it
\* and its message; site "none" when the step did not fail
NoFailure == [site |-> "none", class |-> "none", msg |-> <<>>]
Failure(r) ==
    IF r.exc THEN [site |-> r.site, class |-> r.class, msg |-> r.msg] ELSE NoFailure

\* variant: the client is closed after the return only, an exception skips it
ConnectionEventsCloseOnReturn(out) ==
    IF out.exc THEN <<"aenter", "raise">> ELSE <<"aenter", "return", "aclose">>

\* `async with httpx.AsyncClient(...) as client:` around the try of
\* execute_query: the client is opened on entry, and __aexit__ closes it when
\* the block is left, by the return or by a raised error
ConnectionEvents(out) ==
    IF out.exc THEN <<"aenter", "raise", "aexit">> ELSE <<"aenter", "return", "aexit">>

\* the clients opened and not closed in a sequence of events
RECURSIVE StillOpen(_)
StillOpen(events) ==
    IF events = <<>> THEN 0
    ELSE StillOpen(Tail(events))
         + (CASE Head(events) = "aenter" -> 1
              [] Head(events) \in {"aexit", "aclose"} -> -1
              [] OTHER -> 0)

\* One operation of the client: the requests it sent, the response it got,
\* the failure it ended with and what it returned or raised.
Activity(requests, resp, out) ==
    [requests |-> requests, resp |-> resp, failure |-> Failure(out), out |-> out,
     open |-> Len(requests) * StillOpen(ConnectionEvents(out))]
\* variant: a request that failed is sent a second time
PostedAgainOnFailure(self, op, variables, resp) ==
    Activity(IF execute_query(self, resp).exc
             THEN <<[op |-> op, variables |-> variables], [op |-> op, variables |-> variables]>>
             ELSE <<[op |-> op, variables |-> variables]>>,
             resp, execute_query(self, resp))

Posted(self, op, variables, resp) ==
    Activity(<<[op |-> op, variables |-> variables]>>, resp, execute_query(self, resp))
Sent(self, op, variables, c, cur) ==
    Posted(self, op, variables, Respond(op, variables, c, cur))
NotSent(e) == Activity(<<>>, NoResp, e)

get_projects(self, limit, c, cur) ==
    Sent(self, "projects", JObj([first |-> limit]), c, cur)

\* `if cond: d[key] = value` on the mapping a request is built from
SetIf(cond, key, value) == IF cond THEN (key :> value) ELSE <<>>
NotNone(j) == j.t # "null"

create_project(self, name, client_id, color, emoji, time_budget, time_budget_interval, c, cur) ==
    Sent(self, "createProject",
         JObj([input |-> JObj([name |-> name]
                 @@ SetIf(Truthy(client_id), "clientId", client_id)
                 @@ SetIf(Truthy(color), "color", color)
                 @@ SetIf(Truthy(emoji), "emoji", emoji)
                 @@ SetIf(Truthy(time_budget), "timeBudget", time_budget)
                 @@ SetIf(Truthy(time_budget_interval), "timeBudgetInterval",
                          time_budget_interval))]),
         c, cur)

update_project(self, project_id, name, color, emoji, time_budget, time_budget_interval, c, cur) ==
    Sent(self, "updateProject",
         JObj([input |-> JObj([id |-> project_id]
                 @@ SetIf(NotNone(name), "name", name)
                 @@ SetIf(NotNone(color), "color", color)
                 @@ SetIf(NotNone(emoji), "emoji", emoji)
                 @@ SetIf(NotNone(time_budget), "timeBudget", time_budget)
                 @@ SetIf(NotNone(time_budget_interval), "timeBudgetInterval",
                          time_budget_interval))]),
         c, cur)

get_tasks(self, limit, project_id, c, cur) ==
    Sent(self, "tasks",
         JObj([first |-> limit] @@ SetIf(Truthy(project_id), "projectId", project_id)),
         c, cur)

create_task(self, name, project_id, assignee_id, color, emoji, time_budget, time_budget_interval, c, cur) ==
    Sent(self, "createTask",
         JObj([input |-> JObj([name |-> name]
                 @@ SetIf(Truthy(project_id), "projectId", project_id)
                 @@ SetIf(Truthy(assignee_id), "assigneeId", assignee_id)
                 @@ SetIf(Truthy(color), "color", color)
                 @@ SetIf(Truthy(emoji), "emoji", emoji)
                 @@ SetIf(Truthy(time_budget), "timeBudget", time_budget)
                 @@ SetIf(Truthy(time_budget_interval), "timeBudgetInterval",
                          time_budget_interval))]),
         c, cur)

update_task(self, task_id, name, project_id, assignee_id, color, emoji, time_budget, time_budget_interval, c, cur) ==
    Sent(self, "updateTask",
         JObj([input |-> JObj([id |-> task_id]
                 @@ SetIf(NotNone(name), "name", name)
                 @@ SetIf(NotNone(project_id), "projectId", project_id)
                 @@ SetIf(NotNone(assignee_id), "assigneeId", assignee_id)
                 @@ SetIf(NotNone(color), "color", color)
                 @@ SetIf(NotNone(emoji), "emoji", emoji)
                 @@ SetIf(NotNone(time_budget), "timeBudget", time_budget)
                 @@ SetIf(NotNone(time_budget_interval), "timeBudgetInterval",
                          time_budget_interval))]),
         c, cur)

update_session(self, session_id, title, description, c, cur) ==
    Sent(self, "updateSession",
         JObj([input |-> JObj([id |-> session_id]
                 @@ SetIf(NotNone(title), "title", title)
                 @@ SetIf(NotNone(description), "description", description))]),
         c, cur)

get_current_session(self, c, cur) ==
    Sent(self, "currentSession", EmptyDict, c, cur)

\* int(time.time()) of a clock reading
Epoch(now) == (now.date * 1440 + now.hh * 60 + now.mm) * 60 + now.ss

start_session_timer(self, session_type, now, c, cur) ==
    Sent(self, "startSessionTimer",
         JObj([input |-> JObj([clientMutationId |->
                                 JStr(<<"start_timer_", ToString(Epoch(now))>>)])]),
         c, cur)

\* variant: the stop request names the session it means
StopNamedSession(self, c, cur) ==
    Sent(self, "stopSessionTimer",
         JObj([input |-> JObj([id |-> Str(ToString(cur))])]), c, cur)

stop_session_timer(self, c, cur) ==
    Sent(self, "stopSessionTimer", JObj([input |-> EmptyDict]), c, cur)

Window(start_dt, end_dt) == Return([start_dt |-> start_dt, end_dt |-> end_dt])

\* variant: with only the end given, the duration is added instead of taken off
SessionWindowEndPlus(duration_minutes, start_time, end_time, now) ==
    IF Truthy(start_time) /\ Truthy(end_time)
    THEN Try(parse_time_string(start_time.v), LAMBDA start_dt :
         Try(parse_time_string(end_time.v), LAMBDA end_dt :
         Window(start_dt, end_dt)))
    ELSE IF Truthy(start_time)
    THEN Try(parse_time_string(start_time.v), LAMBDA start_dt :
         Window(start_dt, AddMinutes(start_dt, duration_minutes)))
    ELSE IF Truthy(end_time)
    THEN Try(parse_time_string(end_time.v), LAMBDA end_dt :
         Window(AddMinutes(end_dt, duration_minutes), end_dt))
    ELSE Window(now, AddMinutes(now, duration_minutes))

\* the four cases of the session window; start_time and end_time are
\* JTime values or JNull, duration_minutes an integer
SessionWindow(duration_minutes, start_time, end_time, now) ==
    IF Truthy(start_time) /\ Truthy(end_time)
    THEN Try(parse_time_string(start_time.v), LAMBDA start_dt :
         Try(parse_time_string(end_time.v), LAMBDA end_dt :
         Window(start_dt, end_dt)))
    ELSE IF Truthy(start_time)
    THEN Try(parse_time_string(start_time.v), LAMBDA start_dt :
         Window(start_dt, AddMinutes(start_dt, duration_minutes)))
    ELSE IF Truthy(end_time)
    THEN Try(parse_time_string(end_time.v), LAMBDA end_dt :
         Window(AddMinutes(end_dt, 0 - duration_minutes), end_dt))
    ELSE Window(now, AddMinutes(now, duration_minutes))

\* the variables of the createSession mutation for a resolved window
SessionVariables(w, title, description) ==
    JObj([input |-> JObj([args |-> JObj(
        [startTime |-> JTime(IsoformatZ(w.start_dt)),
         endTime |-> JTime(IsoformatZ(w.end_dt))]
        @@ (IF Truthy(title) THEN [title |-> title] ELSE <<>>)
        @@ (IF Truthy(description) THEN [description |-> description] ELSE <<>>))])])

\* the request of create_session once the window is resolved or has failed
CreateSessionRequest(self, w, title, description, c, cur) ==
    IF w.exc THEN NotSent(w)
    ELSE Sent(self, "createSession", SessionVariables(w.val, title, description), c, cur)

\* variant: the session type is sent along with the window
TypedSessionRequest(self, w, session_type, title, description, c, cur) ==
    IF w.exc THEN NotSent(w)
    ELSE Sent(self, "createSession",
              JObj([input |-> JObj([args |-> JObj(
                  SessionVariables(w.val, title, description).v["input"].v["args"].v
                  @@ [type |-> session_type])])]),
              c, cur)

CreateSessionTyped(self, session_type, title, description, duration_minutes, start_time, end_time, now, c, cur) ==
    TypedSessionRequest(self, SessionWindow(duration_minutes, start_time, end_time, now),
                        session_type, title, description, c, cur)

create_session(self, session_type, title, description, duration_minutes, start_time, end_time, now, c, cur) ==
    CreateSessionRequest(self, SessionWindow(duration_minutes, start_time, end_time, now),
                         title, description, c, cur)

\* variant: a failed request is reported as a successful connection
ConnectionMessageAlwaysOk(email) ==
    Return([success |-> TRUE,
            message |-> <<"[OK]", " Connection successful! User: ">>
                          \o (IF email.exc THEN <<"Unknown">> ELSE PyStr(email.val))])

\* the (success, message) pair test_connection makes of the user's email
ConnectionMessage(email) ==
    IF email.exc
    THEN Return([success |-> FALSE,
                 message |-> <<"[ERROR]", " Connection failed: ">> \o email.msg])
    ELSE Return([success |-> TRUE,
                 message |-> <<"[OK]", " Connection successful! User: ">> \o PyStr(email.val)])

UserEmail(result) ==
    Try(Chain2(result, "data", "currentUser"), LAMBDA user :
        DictGet(user, "email", Str("Unknown")))

\* the try block of test_connection and its except clause
TestConnectionOutcome(s, email) ==
    [s EXCEPT !.out = ConnectionMessage(email), !.failure = Failure(email)]

TestConnectionAnswer(s) == TestConnectionOutcome(s, Try(s.out, UserEmail))

\* RizeClient.test_connection: (success, message), never raises
test_connection(self, c, cur) ==
    TestConnectionAnswer(Sent(self, "currentUser", EmptyDict, c, cur))

\* ---------------------------------------------------------- tool handlers
\* What a handler did: the text it returned and the client activity.
Idle == [requests |-> <<>>, resp |-> NoResp, failure |-> NoFailure, open |-> 0]
Done(text, act) ==
    [text |-> text, requests |-> act.requests, resp |-> act.resp,
     failure |-> act.failure, raised |-> "none", open |-> act.open]

\* variant: a failure is reported under the [INFO] tag
CaughtAsInfo(prefix, body, act) ==
    IF body.exc THEN Done(<<"[INFO]", prefix>> \o body.msg, act)
    ELSE Done(body.val, act)

\* `except Exception as e: return f"[ERROR] <prefix>{str(e)}"` around a body
Caught(prefix, body, act) ==
    IF body.exc THEN Done(<<"[ERROR]", prefix>> \o body.msg, act)
    ELSE Done(body.val, act)

\* a handler after its client call: F makes the text of the returned result
Answer(prefix, r, F(_)) == Caught(prefix, Try(r.out, F), r)

\* a handler from `client = RizeClient()` on
WithClient(prefix, client, F(_)) ==
    IF client.exc THEN Caught(prefix, client, NotSent(client)) ELSE F(client.val)

\* x[k] on a JSON value
Subscript(x, k) ==
    IF x.t # "obj"
    THEN Raise("TypeError", "subscript", <<"object is not subscriptable">>)
    ELSE IF k \notin DOMAIN x.v
    THEN Raise("KeyError", "subscript", <<"'", k, "'">>)
    ELSE Return(x.v[k])

\* [err['message'] for err in errors]
RECURSIVE MessageList(_)
MessageList(errs) ==
    IF Len(errs) = 0 THEN Return(<<>>)
    ELSE Try(Subscript(errs[1], "message"), LAMBDA m :
         Try(MessageList(Tail(errs)), LAMBDA rest :
         Return(PyStr(m) \o rest)))

ErrorsText(errors) ==
    IF errors.t # "list"
    THEN Raise("TypeError", "for", <<"'NoneType' object is not iterable">>)
    ELSE Try(MessageList(errors.v), LAMBDA ms : Return(ReprList(ms)))

\* the text a mutation handler makes of data.<field>: the errors branch, the
\* missing object, or Success of the object under objkey
MutationText(result, field, objkey, prefix, Success(_)) ==
    Try(Chain2(result, "data", field), LAMBDA payload :
    Try(KeyIn("errors", payload), LAMBDA has :
        IF has
        THEN Try(ErrorsText(payload.v["errors"]), LAMBDA errs :
             Return(<<"[ERROR]", prefix>> \o errs))
        ELSE Try(DictGet(payload, objkey, JNull), LAMBDA obj :
             IF ~Truthy(obj)
             THEN Return(<<"[ERROR]", prefix, "No response data">>)
             ELSE Success(obj))))

WhiteTokens == {"\n", " ", ""}

RECURSIVE StripRight(_)
StripRight(q) ==
    IF Len(q) > 0 /\ q[Len(q)] \in WhiteTokens
    THEN StripRight(SubSeq(q, 1, Len(q) - 1))
    ELSE q

\* `arguments or {}`
ArgsOf(arguments) == IF Truthy(arguments) THEN arguments ELSE EmptyDict

\* args.get(k) and args.get(k, default) on the argument mapping
Arg(args, k) == IF k \in DOMAIN args.v THEN args.v[k] ELSE JNull
ArgOr(args, k, default) == IF k \in DOMAIN args.v THEN args.v[k] ELSE default

TestConnectionDone(t) == Done(t.out.val.message, t)

test_connection_handler(api_token, c, cur) ==
    WithClient(" Connection test failed: ", RizeClient(api_token), LAMBDA client :
        TestConnectionDone(test_connection(client, c, cur)))

\* the loop of list_projects_handler over the edges
RECURSIVE ProjectLines(_)
ProjectLines(edges) ==
    IF Len(edges) = 0 THEN Return(<<>>)
    ELSE Try(Subscript(edges[1], "node"), LAMBDA project :
         Try(DictGet(project, "emoji", JStr(<<>>)), LAMBDA emoji :
         Try(Subscript(project, "name"), LAMBDA name :
         Try(Subscript(project, "id"), LAMBDA project_id :
         Try(ProjectLines(Tail(edges)), LAMBDA rest :
         Return(PyStr(emoji) \o <<" ">> \o PyStr(name) \o <<" (ID: ">>
                \o PyStr(project_id) \o <<")", "\n">> \o rest))))))

\* variant: an empty list is counted like any other
ListProjectsTextCounting(result) ==
    Try(KeyIn("errors", result), LAMBDA has :
        IF has
        THEN Return(<<"[ERROR]", " Failed to get projects: ">> \o PyStr(result.v["errors"]))
        ELSE Try(Chain2(result, "data", "projects"), LAMBDA holder :
             Try(DictGet(holder, "edges", JList(<<>>)), LAMBDA projects :
             IF projects.t # "list"
             THEN Raise("TypeError", "for", <<"string indices must be integers">>)
             ELSE Try(ProjectLines(projects.v), LAMBDA lines :
                  Return(StripRight(<<"[SUCCESS]", " Found ", ToString(Len(projects.v)),
                                      " projects:", "\n", "\n">> \o lines))))))

ListProjectsText(result) ==
    Try(KeyIn("errors", result), LAMBDA has :
        IF has
        THEN Return(<<"[ERROR]", " Failed to get projects: ">> \o PyStr(result.v["errors"]))
        ELSE Try(Chain2(result, "data", "projects"), LAMBDA holder :
             Try(DictGet(holder, "edges", JList(<<>>)), LAMBDA projects :
             IF ~Truthy(projects)
             THEN Return(<<"[INFO]", " No projects found. Use create_project to create one.">>)
             ELSE IF projects.t # "list"
             THEN Raise("TypeError", "for", <<"string indices must be integers">>)
             ELSE Try(ProjectLines(projects.v), LAMBDA lines :
                  Return(StripRight(<<"[SUCCESS]", " Found ", ToString(Len(projects.v)),
                                      " projects:", "\n", "\n">> \o lines))))))

list_projects_handler(api_token, args, c, cur) ==
    WithClient(" Failed to list projects: ", RizeClient(api_token), LAMBDA client :
        Answer(" Failed to list projects: ",
               get_projects(client, ArgOr(args, "limit", JInt(DefaultLimit)), c, cur),
               ListProjectsText))

ProjectCreatedText(project) ==
    Try(DictGet(project, "emoji", JStr(<<>>)), LAMBDA emoji :
    Try(Subscript(project, "name"), LAMBDA project_name :
    Try(Subscript(project, "id"), LAMBDA project_id :
    Return(<<"[SUCCESS]", " Project created: ">> \o PyStr(emoji) \o <<" ">>
           \o PyStr(project_name) \o <<" (ID: ">> \o PyStr(project_id) \o <<")">>))))

CreateProjectText(result) ==
    MutationText(result, "createProject", "project", " Failed to create project: ",
                 ProjectCreatedText)

create_project_handler(api_token, args, c, cur) ==
    WithClient(" Failed to create project: ", RizeClient(api_token), LAMBDA client :
        IF ~Truthy(Arg(args, "name"))
        THEN Done(<<"[ERROR]", " Missing required parameter: name">>, Idle)
        ELSE Answer(" Failed to create project: ",
                    create_project(client, Arg(args, "name"), JNull, JNull,
                                   Arg(args, "emoji"), JNull, JNull, c, cur),
                    CreateProjectText))

TimerStartedText(session) ==
    Try(Subscript(session, "id"), LAMBDA session_id :
    Try(DictGet(session, "startTime", JStr(<<>>)), LAMBDA start_time :
    Return(<<"[SUCCESS]", " Timer started! Session ID: ">> \o PyStr(session_id)
           \o <<", Start time: ">> \o PyStr(start_time))))

StartTimerText(result) ==
    MutationText(result, "startSessionTimer", "session", " Failed to start timer: ",
                 TimerStartedText)

start_session_timer_handler(api_token, args, now, c, cur) ==
    WithClient(" Failed to start timer: ", RizeClient(api_token), LAMBDA client :
        Answer(" Failed to start timer: ",
               start_session_timer(client, ArgOr(args, "session_type", Str("FOCUS")),
                                   now, c, cur),
               StartTimerText))

TimerStoppedText(session) ==
    Try(Subscript(session, "id"), LAMBDA session_id :
    Try(DictGet(session, "endTime", JStr(<<>>)), LAMBDA end_time :
    Return(<<"[SUCCESS]", " Timer stopped! Session ID: ">> \o PyStr(session_id)
           \o <<", End time: ">> \o PyStr(end_time))))

\* the confirmed branch of stop_session_timer_handler after the mutation
StopConfirmedText(result) ==
    MutationText(result, "stopSessionTimer", "session", " Failed to stop timer: ",
                 TimerStoppedText)

\* variant: the prompt names the session by its id only
StopPromptWithoutTitle(current_result) ==
    Try(DictGet(current_result, "data", EmptyDict), LAMBDA data :
    Try(DictGet(data, "currentSession", JNull), LAMBDA current_session :
        IF ~Truthy(current_session)
        THEN Return(<<"[INFO]", " zh:there is no active session to stop.">>)
        ELSE Try(Subscript(current_session, "id"), LAMBDA session_id :
             Return(<<"[CONFIRM]", " zh:about to stop the following session:", "\n", "\n",
                      "  - zh:session ID: ">> \o PyStr(session_id) \o <<"\n", "\n",
                      "zh:to confirm, call stop_session_timer again with confirm=true">>))))

\* variant: the prompt is written without looking whether a session runs
StopPromptUnchecked(current_result) ==
    Try(DictGet(current_result, "data", EmptyDict), LAMBDA data :
    Try(DictGet(data, "currentSession", JNull), LAMBDA current_session :
        Return(<<"[CONFIRM]", " zh:about to stop the following session:", "\n", "\n",
                 "  - zh:session ID: ">> \o PyStr(current_session) \o <<"\n", "\n",
                 "zh:to confirm, call stop_session_timer again with confirm=true">>)))

\* the unconfirmed branch after the current-session query
StopPromptText(current_result) ==
    Try(DictGet(current_result, "data", EmptyDict), LAMBDA data :
    Try(DictGet(data, "currentSession", JNull), LAMBDA current_session :
        IF ~Truthy(current_session)
        THEN Return(<<"[INFO]", " zh:there is no active session to stop.">>)
        ELSE Try(Subscript(current_session, "id"), LAMBDA session_id :
             Try(DictGet(current_session, "title", Str("zh:current session")), LAMBDA title :
             Try(DictGet(current_session, "startTime", JStr(<<>>)), LAMBDA start_time :
             Return(<<"[CONFIRM]", " zh:about to stop the following session:", "\n", "\n",
                      "  - zh:session ID: ">> \o PyStr(session_id) \o <<"\n",
                      "  - zh:title: ">> \o PyStr(title) \o <<"\n",
                      "  - zh:start time: ">> \o PyStr(start_time) \o <<"\n", "\n",
                      "zh:this ends the current session and records the time used.", "\n",
                      "zh:to confirm, call stop_session_timer again with confirm=true">>))))))

stop_session_timer_handler(api_token, args, c, cur) ==
    WithClient(" Failed to process stop request: ", RizeClient(api_token), LAMBDA client :
        IF Truthy(ArgOr(args, "confirm", JBool(FALSE)))
        THEN Answer(" Failed to process stop request: ",
                    stop_session_timer(client, c, cur), StopConfirmedText)
        ELSE Answer(" Failed to process stop request: ",
                    get_current_session(client, c, cur), StopPromptText))

CurrentSessionText(result) ==
    Try(KeyIn("errors", result), LAMBDA has :
        IF has
        THEN Return(<<"[ERROR]", " Failed to get current session: ">>
                    \o PyStr(result.v["errors"]))
        ELSE Try(DictGet(result, "data", EmptyDict), LAMBDA data :
             Try(DictGet(data, "currentSession", JNull), LAMBDA session :
             IF ~Truthy(session)
             THEN Return(<<"[INFO]", " No active session. Use start_session_timer to begin one.">>)
             ELSE Try(Subscript(session, "id"), LAMBDA session_id :
                  Try(DictGet(session, "title", Str("Current session")), LAMBDA title :
                  Try(DictGet(session, "type", JStr(<<>>)), LAMBDA session_type :
                  Try(DictGet(session, "startTime", JStr(<<>>)), LAMBDA start_time :
                  Return(<<"[SUCCESS]", " Active session: ">> \o PyStr(title)
                         \o <<" (ID: ">> \o PyStr(session_id) \o <<", Type: ">>
                         \o PyStr(session_type) \o <<", Started: ">>
                         \o PyStr(start_time) \o <<")">>))))))))

get_current_session_handler(api_token, c, cur) ==
    WithClient(" Failed to get current session: ", RizeClient(api_token), LAMBDA client :
        Answer(" Failed to get current session: ",
               get_current_session(client, c, cur), CurrentSessionText))

\* the keys of an argument mapping, in the order the echo lists them
ArgKeys ==
    <<"session_type", "title", "description", "duration_minutes", "start_time",
      "end_time", "confirm", "limit", "name", "emoji">>

RECURSIVE EchoArgs(_, _)
EchoArgs(args, i) ==
    IF i > Len(ArgKeys) THEN <<>>
    ELSE (IF ArgKeys[i] \in DOMAIN args.v
          THEN <<"  - ", ArgKeys[i], ": ">> \o PyStr(args.v[ArgKeys[i]]) \o <<"\n">>
          ELSE <<>>) \o EchoArgs(args, i + 1)

\* the three tests of validate_session_params
NoTimeIssue(args) == ~Truthy(Arg(args, "start_time")) /\ ~Truthy(Arg(args, "end_time"))
NoTitleIssue(args) == ~Truthy(Arg(args, "title"))
DurationIssue(duration_minutes) ==
    /\ Truthy(duration_minutes)
    /\ (duration_minutes.v < MinDurationMinutes \/ duration_minutes.v > MaxDurationMinutes)

Issues(args) ==
    (IF NoTimeIssue(args)
     THEN <<"  - ", "zh:neither start time nor end time given", "\n">> ELSE <<>>)
    \o (IF NoTitleIssue(args)
        THEN <<"  - ", "zh:session title not given", "\n">> ELSE <<>>)
    \o (IF DurationIssue(Arg(args, "duration_minutes"))
        THEN <<"  - ", "zh:duration ", ToString(Arg(args, "duration_minutes").v),
               " zh:minutes may be unreasonable", "\n">> ELSE <<>>)

Suggestions(args) ==
    (IF NoTimeIssue(args)
     THEN <<"  ", "zh:give a start time", "\n", "  ", "zh:or give an end time", "\n">>
     ELSE <<>>)
    \o (IF NoTitleIssue(args) THEN <<"  ", "zh:add a title", "\n">> ELSE <<>>)
    \o (IF DurationIssue(Arg(args, "duration_minutes"))
        THEN <<"  ", "zh:keep the duration within 5-480 minutes", "\n">> ELSE <<>>)

\* validate_session_params: (needs confirmation, confirmation message)
validate_session_params(args) ==
    IF Issues(args) # <<>>
    THEN [needs_confirm |-> TRUE,
          confirm_msg |-> <<"[CONFIRM]", " zh:confirm the following before creating the session:",
                            "\n", "\n", "zh:issues found:", "\n">> \o Issues(args)
                          \o <<"\n", "zh:suggested parameters:", "\n">> \o Suggestions(args)
                          \o <<"\n", "zh:current parameters:", "\n">> \o EchoArgs(args, 1)
                          \o <<"\n", "zh:give the missing parameters and call create_session again.">>]
    ELSE [needs_confirm |-> FALSE, confirm_msg |-> <<>>]

SessionCreatedText(session) ==
    Try(Subscript(session, "id"), LAMBDA session_id :
    Try(DictGet(session, "title", Str("New session")), LAMBDA session_title :
    Try(DictGet(session, "type", JStr(<<>>)), LAMBDA session_type :
    Try(DictGet(session, "startTime", JStr(<<>>)), LAMBDA start_time :
    Try(DictGet(session, "endTime", JStr(<<>>)), LAMBDA end_time :
    Return(<<"[SUCCESS]", " Session created: ">> \o PyStr(session_title)
           \o <<" (ID: ">> \o PyStr(session_id) \o <<", Type: ">> \o PyStr(session_type)
           \o <<", Duration: ">> \o PyStr(start_time) \o <<" to ">> \o PyStr(end_time)
           \o <<")">>))))))

CreateSessionText(result) ==
    MutationText(result, "createSession", "session", " Failed to create session: ",
                 SessionCreatedText)

\* create_session_handler once validate_session_params has returned v
CreateSessionAfter(v, api_token, args, now, c, cur) ==
    IF v.needs_confirm THEN Done(v.confirm_msg, Idle)
    ELSE WithClient(" Failed to create session: ", RizeClient(api_token), LAMBDA client :
         Answer(" Failed to create session: ",
                create_session(client,
                               ArgOr(args, "session_type", Str("focus")),
                               Arg(args, "title"),
                               Arg(args, "description"),
                               ArgOr(args, "duration_minutes",
                                     JInt(DefaultDurationMinutes)).v,
                               Arg(args, "start_time"),
                               Arg(args, "end_time"),
                               now, c, cur),
                CreateSessionText))

create_session_handler(api_token, args, now, c, cur) ==
    CreateSessionAfter(validate_session_params(args), api_token, args, now, c, cur)

\* ------------------------------------------------------------ dispatcher
\* the names handle_list_tools lists
ToolNames ==
    { "test_connection", "list_projects", "create_project", "start_session_timer",
      "stop_session_timer", "get_current_session", "create_session" }

\* variant: the chain lacks the branch of get_current_session
DispatchWithoutCurrentSession(api_token, name, args, now, c, cur) ==
    CASE name = "test_connection" -> test_connection_handler(api_token, c, cur)
      [] name = "list_projects" -> list_projects_handler(api_token, args, c, cur)
      [] name = "create_project" -> create_project_handler(api_token, args, c, cur)
      [] name = "start_session_timer" ->
            start_session_timer_handler(api_token, args, now, c, cur)
      [] name = "stop_session_timer" -> stop_session_timer_handler(api_token, args, c, cur)
      [] name = "create_session" -> create_session_handler(api_token, args, now, c, cur)
      [] OTHER -> Done(<<"[ERROR]", " Unknown tool: ", name>>, Idle)

\* the if/elif chain of handle_call_tool over the tool name
Dispatch(api_token, name, args, now, c, cur) ==
    CASE name = "test_connection" -> test_connection_handler(api_token, c, cur)
      [] name = "list_projects" -> list_projects_handler(api_token, args, c, cur)
      [] name = "create_project" -> create_project_handler(api_token, args, c, cur)
      [] name = "start_session_timer" ->
            start_session_timer_handler(api_token, args, now, c, cur)
      [] name = "stop_session_timer" -> stop_session_timer_handler(api_token, args, c, cur)
      [] name = "get_current_session" -> get_current_session_handler(api_token, c, cur)
      [] name = "create_session" -> create_session_handler(api_token, args, now, c, cur)
      [] OTHER -> Done(<<"[ERROR]", " Unknown tool: ", name>>, Idle)

\* the outer except clause of handle_call_tool: a failure a handler let
\* through becomes a text as well
ToolCallFailed(d) ==
    IF d.raised = "none" THEN d
    ELSE [d EXCEPT !.text = <<"[ERROR]", " Tool call failed: ">> \o d.failure.msg,
                   !.raised = "none"]

handle_call_tool(api_token, name, arguments, now, c, cur) ==
    ToolCallFailed(Dispatch(api_token, name, ArgsOf(arguments), now, c, cur))

\* ------------------------------------------------------------------ inputs
\* the API tokens the environment may configure; <<>> is no token
Alphabet == <<"a", "b", "c", "d", "e", "f", "g", "h", "i", "j", "k", "l", "m",
              "n", "o", "p", "q", "r", "s", "t", "u", "v", "w", "x", "y", "z">>
Token(n) == [i \in 1..n |-> Alphabet[i]]
Tokens == { Token(0), Token(MaxTokenLen) }

\* readings of the clock; the handlers that read no clock are given Noon
Noon == DateTime(1, 12, 0, 7, 250)
Clock == { DateTime(MaxDate, 23, 30, 15, 0), Noon }

\* duration_minutes values around the limits of the gate
Durations ==
    { 0 - 1, 0, MinDurationMinutes - 1, MinDurationMinutes,
      MaxDurationMinutes, MaxDurationMinutes + 1 }

\* an argument mapping: the keys of f whose value is present
Absent == [t |-> "absent"]
Mapping(f) == JObj([k \in { x \in DOMAIN f : f[x].t # "absent" } |-> f[k]])

NoArguments == { JNull, EmptyDict }

ListProjectsArgs == NoArguments \cup { JObj([limit |-> JInt(5)]) }

CreateProjectArgs ==
    { Mapping([name |-> n, emoji |-> e]) :
        n \in {Absent, JStr(<<>>), Str("Inbox")}, e \in {Absent, Str("<emoji>")} }

StartTimerArgs ==
    NoArguments \cup { JObj([session_type |-> Str(st)]) : st \in {"FOCUS", "BREAK"} }

StopTimerArgs == NoArguments \cup { JObj([confirm |-> JBool(b)]) : b \in BOOLEAN }

\* time strings a create_session tool call may carry
ToolTimes ==
    { Absent, JTime(EmptyTime), JTime(WordsTime),
      JTime(TimeStr("datetime", MaxDate, " ", 23, 30, -1, -1, FALSE)) }

CreateSessionArgs ==
    { Mapping([session_type |-> p[1], description |-> p[2], title |-> ti,
               duration_minutes |-> du, start_time |-> st, end_time |-> en]) :
        p \in { <<Absent, Absent>>, <<Str("break"), Str("notes")>> },
        ti \in { Absent, JStr(<<>>), Str("Write") },
        du \in { Absent } \cup { JInt(d) : d \in Durations },
        st \in ToolTimes, en \in ToolTimes }

\* time strings a direct RizeClient.create_session call may carry
ClientTimes ==
    { JNull, JTime(EmptyTime), JTime(WordsTime),
      JTime(TimeStr("datetime", 1, "T", 24, 30, -1, -1, FALSE)) }
    \cup UNION { { JTime(TimeStr("date", d, "", -1, -1, -1, -1, FALSE)),
                   JTime(TimeStr("datetime", d, "T", 23, 30, 15, -1, FALSE)),
                   JTime(TimeStr("datetime", d, " ", 23, 30, 15, -1, FALSE)),
                   JTime(TimeStr("datetime", d, "T", 23, 30, -1, -1, FALSE)),
                   JTime(TimeStr("datetime", d, " ", 0, 30, -1, -1, FALSE)),
                   JTime(TimeStr("datetime", d, "T", 23, 30, 15, -1, TRUE)) } :
                 d \in 1..MaxDate }

\* -------------------------------------------------------------------- state
VARIABLES
    pc,              \* "starting", "idle", "answered" or "exited"
    exit_code,       \* the exit status once pc = "exited"
    mcp_available,   \* whether the host-protocol library imports
    api_token,       \* RIZE_API_TOKEN of the environment, <<>> when unset
    currentSession,  \* the upstream's running session, 0 for none
    call,            \* the invocation being answered
    result,          \* what it returned: text, requests sent, response, ...
    prompted,        \* history: the session the last stop prompt named, 0 for none
    open_connections \* the HTTP clients opened and not yet closed

vars == <<pc, exit_code, mcp_available, api_token, currentSession, call, result, prompted, open_connections>>

NoCall == [kind |-> "none", name |-> "", arguments |-> JNull]
NoResult == [text |-> <<>>, requests |-> <<>>, resp |-> NoResp, failure |-> NoFailure,
             raised |-> "none", open |-> 0]

Init ==
    /\ pc = "starting"
    /\ exit_code = 0
    /\ mcp_available \in BOOLEAN
    /\ api_token \in Tokens
    /\ currentSession \in 0..NumSessions
    /\ call = NoCall
    /\ result = NoResult
    /\ prompted = 0
    /\ open_connections = 0

\* server_simple.py: `from mcp.server import ...` fails, sys.exit(1)
ImportFails ==
    /\ pc = "starting"
    /\ ~mcp_available
    /\ pc' = "exited"
    /\ exit_code' = 1
    /\ UNCHANGED <<mcp_available, api_token, currentSession, call, result, prompted, open_connections>>

\* main() and run_server(): the server starts serving; the token is not read
ServerStarts ==
    /\ pc = "starting"
    /\ mcp_available
    /\ pc' = "idle"
    /\ UNCHANGED <<exit_code, mcp_available, api_token, currentSession, call, result, prompted, open_connections>>

\* run_server(): app.run or stdio_server raises, sys.exit(1)
ServerFails ==
    /\ pc \in {"starting", "idle"}
    /\ mcp_available
    /\ pc' = "exited"
    /\ exit_code' = 1
    /\ UNCHANGED <<mcp_available, api_token, currentSession, call, result, prompted, open_connections>>

\* main(): KeyboardInterrupt, the process ends with status 0
ServerStopped ==
    /\ pc = "idle"
    /\ pc' = "exited"
    /\ exit_code' = 0
    /\ UNCHANGED <<mcp_available, api_token, currentSession, call, result, prompted, open_connections>>

\* the session a stop prompt in r names, else the one the history holds
PromptedAfter(r) ==
    IF /\ Len(r.requests) = 1 /\ r.requests[1].op = "currentSession"
       /\ Len(r.text) > 0 /\ r.text[1] = "[CONFIRM]"
    THEN currentSession
    ELSE prompted

\* the call returns r; the upstream has served the requests of the call
Returned(r, c) ==
    /\ result' = r
    /\ currentSession' = UpstreamAfter(r.requests, c, currentSession)
    /\ prompted' = PromptedAfter(r)
    /\ open_connections' = open_connections + r.open

\* variant: a confirmed stop is carried out only after a prompt was shown
InvokeAfterPrompt(name, arguments, now) ==
    /\ pc = "idle"
    /\ IF /\ name = "stop_session_timer"
          /\ Truthy(ArgOr(ArgsOf(arguments), "confirm", JBool(FALSE)))
          /\ prompted = 0
       THEN /\ result' = Done(<<"[ERROR]", " zh:nothing to confirm">>, Idle)
            /\ UNCHANGED <<currentSession, prompted, open_connections>>
       ELSE \E c \in Choices :
              Returned(handle_call_tool(api_token, name, arguments, now, c, currentSession), c)
    /\ call' = [kind |-> "tool", name |-> name, arguments |-> arguments]
    /\ pc' = "answered"
    /\ UNCHANGED <<exit_code, mcp_available, api_token>>

\* one invocation of handle_call_tool, from the request to the returned text
Invoke(name, arguments, now) ==
    /\ pc = "idle"
    /\ \E c \in Choices :
         Returned(handle_call_tool(api_token, name, arguments, now, c, currentSession), c)
    /\ call' = [kind |-> "tool", name |-> name, arguments |-> arguments]
    /\ pc' = "answered"
    /\ UNCHANGED <<exit_code, mcp_available, api_token>>

CallTestConnection == \E a \in NoArguments : Invoke("test_connection", a, Noon)
CallListProjects == \E a \in ListProjectsArgs : Invoke("list_projects", a, Noon)
CallCreateProject == \E a \in CreateProjectArgs : Invoke("create_project", a, Noon)
CallStartSessionTimer ==
    \E a \in StartTimerArgs, now \in Clock : Invoke("start_session_timer", a, now)
CallStopSessionTimer == \E a \in StopTimerArgs : Invoke("stop_session_timer", a, Noon)
CallGetCurrentSession == \E a \in NoArguments : Invoke("get_current_session", a, Noon)
CallCreateSession ==
    \E a \in CreateSessionArgs, now \in Clock : Invoke("create_session", a, now)

\* names the catalog does not list
UnknownNames == { "delete_project", "Test_Connection", "" }
CallUnknownTool ==
    \E n \in UnknownNames, a \in NoArguments \cup StopTimerArgs : Invoke(n, a, Noon)

\* the answers the upstream gives a direct client call
ClientChoices ==
    { c \in Choices :
        \/ c.transport = "ConnectTimeout"
        \/ c.shape = "ok" /\ c.pshape = "object" /\ c.n = 0 /\ c.new = 1 }

\* RizeClient() and then create_session on it
ClientCall(client, title, duration_minutes, start_time, end_time, now, c) ==
    IF client.exc THEN NotSent(client)
    ELSE create_session(client.val, Str("focus"), title, JNull, duration_minutes,
                        start_time, end_time, now, c, currentSession)

\* what the caller of a client operation sees
ClientResult(r) ==
    [text |-> <<>>, requests |-> r.requests, resp |-> r.resp, failure |-> r.failure,
     raised |-> r.failure.class, open |-> r.open]

\* a direct call of RizeClient.create_session, as a script using the client makes
ClientCreateSession ==
    /\ pc = "idle"
    /\ \E title \in {Str("Write")}, duration_minutes \in Durations,
          start_time \in ClientTimes, end_time \in ClientTimes,
          now \in Clock, c \in ClientChoices :
         /\ Returned(ClientResult(ClientCall(RizeClient(api_token), title, duration_minutes,
                                             start_time, end_time, now, c)), c)
         /\ call' = [kind |-> "client", name |-> "create_session",
                     arguments |-> JObj([title |-> title,
                                         duration_minutes |-> JInt(duration_minutes),
                                         start_time |-> start_time,
                                         end_time |-> end_time,
                                         now |-> JTime(IsoformatZ(now))])]
    /\ pc' = "answered"
    /\ UNCHANGED <<exit_code, mcp_available, api_token>>

\* the caller takes the answer; nothing of the call is kept
AnswerTaken ==
    /\ pc = "answered"
    /\ pc' = "idle"
    /\ call' = NoCall
    /\ result' = NoResult
    /\ UNCHANGED <<exit_code, mcp_available, api_token, currentSession, prompted, open_connections>>

\* the user starts, stops or switches the session in the Rize app itself
UpstreamChanges ==
    /\ pc = "idle"
    /\ \E s \in 0..NumSessions : s # currentSession /\ currentSession' = s
    /\ UNCHANGED <<pc, exit_code, mcp_available, api_token, call, result, prompted, open_connections>>

Next ==
    \/ ImportFails
    \/ ServerStarts
    \/ ServerFails
    \/ ServerStopped
    \/ CallTestConnection
    \/ CallListProjects
    \/ CallCreateProject
    \/ CallStartSessionTimer
    \/ CallStopSessionTimer
    \/ CallGetCurrentSession
    \/ CallCreateSession
    \/ CallUnknownTool
    \/ ClientCreateSession
    \/ AnswerTaken
    \/ UpstreamChanges

Spec == Init /\ [][Next]_vars

\* ------------------------------------------------------- script on the client
\* A script drives RizeClient directly, as test_basic_api.py and
\* test_rize_client do: no server, one client operation at a time.
ScriptTokens == { Token(n) : n \in 0..(MaxTokenLen + 4) }

ScriptInit ==
    /\ pc = "idle"
    /\ exit_code = 0
    /\ mcp_available = TRUE
    /\ api_token \in ScriptTokens
    /\ currentSession \in 0..NumSessions
    /\ call = NoCall
    /\ result = NoResult
    /\ prompted = 0
    /\ open_connections = 0

\* RizeClient() and then one operation on it
OnClient(client, Op(_)) == IF client.exc THEN NotSent(client) ELSE Op(client.val)

\* the script's call ends with the activity r
ScriptReturned(name, arguments, r, c) ==
    /\ pc = "idle"
    /\ Returned(ClientResult(r), c)
    /\ call' = [kind |-> "client", name |-> name, arguments |-> arguments]
    /\ pc' = "answered"
    /\ UNCHANGED <<exit_code, mcp_available, api_token>>

ScriptTestConnection ==
    \E c \in Choices :
        ScriptReturned("test_connection", EmptyDict,
                       OnClient(RizeClient(api_token),
                                LAMBDA self : test_connection(self, c, currentSession)), c)

ScriptGetProjects ==
    \E c \in Choices, limit \in {JInt(5)} :
        ScriptReturned("get_projects", JObj([limit |-> limit]),
                       OnClient(RizeClient(api_token),
                                LAMBDA self : get_projects(self, limit, c, currentSession)), c)

ScriptGetCurrentSession ==
    \E c \in Choices :
        ScriptReturned("get_current_session", EmptyDict,
                       OnClient(RizeClient(api_token),
                                LAMBDA self : get_current_session(self, c, currentSession)), c)

\* values of an optional argument named k: an empty string or a zero when
\* blank, else a plain value
Provided(k, blank) ==
    IF k = "time_budget" THEN JInt(IF blank THEN 0 ELSE 30)
    ELSE IF blank THEN JStr(<<>>) ELSE Str("v")

\* the ways a caller passes the optional arguments keys: each one left out
\* (None) or provided
Optionals(keys) ==
    { [k \in keys |-> IF k \in P THEN Provided(k, blank) ELSE JNull] :
        P \in SUBSET keys, blank \in BOOLEAN }

ProjectOptionals == {"color", "emoji", "time_budget", "time_budget_interval"}
TaskOptionals == {"project_id", "assignee_id"} \cup ProjectOptionals

ScriptCreateProject ==
    \E c \in ClientChoices, a \in Optionals({"client_id"} \cup ProjectOptionals) :
        ScriptReturned("create_project", JObj(a),
            OnClient(RizeClient(api_token), LAMBDA self :
                create_project(self, Str("Write"), a["client_id"], a["color"], a["emoji"],
                               a["time_budget"], a["time_budget_interval"],
                               c, currentSession)), c)

ScriptUpdateProject ==
    \E c \in ClientChoices, a \in Optionals({"name"} \cup ProjectOptionals) :
        ScriptReturned("update_project", JObj(a),
            OnClient(RizeClient(api_token), LAMBDA self :
                update_project(self, Str("p-1"), a["name"], a["color"], a["emoji"],
                               a["time_budget"], a["time_budget_interval"],
                               c, currentSession)), c)

ScriptGetTasks ==
    \E c \in ClientChoices, a \in Optionals({"project_id"}) :
        ScriptReturned("get_tasks", JObj(a),
            OnClient(RizeClient(api_token), LAMBDA self :
                get_tasks(self, JInt(50), a["project_id"], c, currentSession)), c)

ScriptCreateTask ==
    \E c \in ClientChoices, a \in Optionals(TaskOptionals) :
        ScriptReturned("create_task", JObj(a),
            OnClient(RizeClient(api_token), LAMBDA self :
                create_task(self, Str("Draft"), a["project_id"], a["assignee_id"],
                            a["color"], a["emoji"], a["time_budget"],
                            a["time_budget_interval"], c, currentSession)), c)

ScriptUpdateTask ==
    \E c \in ClientChoices, a \in Optionals({"name"} \cup TaskOptionals) :
        ScriptReturned("update_task", JObj(a),
            OnClient(RizeClient(api_token), LAMBDA self :
                update_task(self, Str("t-1"), a["name"], a["project_id"], a["assignee_id"],
                            a["color"], a["emoji"], a["time_budget"],
                            a["time_budget_interval"], c, currentSession)), c)

ScriptUpdateSession ==
    \E c \in ClientChoices, a \in Optionals({"title", "description"}) :
        ScriptReturned("update_session", JObj(a),
            OnClient(RizeClient(api_token), LAMBDA self :
                update_session(self, Str("1"), a["title"], a["description"],
                               c, currentSession)), c)

ScriptCreateSession ==
    \E c \in ClientChoices, a \in Optionals({"title", "description"}) :
        ScriptReturned("create_session", JObj(a),
            OnClient(RizeClient(api_token), LAMBDA self :
                create_session(self, Str("focus"), a["title"], a["description"],
                               DefaultDurationMinutes, JNull, JNull, Noon,
                               c, currentSession)), c)

ScriptNext ==
    \/ ScriptTestConnection
    \/ ScriptGetProjects
    \/ ScriptGetCurrentSession
    \/ ScriptCreateProject
    \/ ScriptUpdateProject
    \/ ScriptGetTasks
    \/ ScriptCreateTask
    \/ ScriptUpdateTask
    \/ ScriptUpdateSession
    \/ ScriptCreateSession
    \/ AnswerTaken
    \/ UpstreamChanges

ScriptSpec == ScriptInit /\ [][ScriptNext]_vars

\* -------------------------------------------------------------- properties
\* vocabulary of the properties below
ToolAnswered(name) == pc = "answered" /\ call.kind = "tool" /\ call.name = name
CallArgs == ArgsOf(call.arguments)
Configured == api_token # <<>>
Ops(requests) == [i \in 1..Len(requests) |-> requests[i].op]
Within(text, part) ==
    \E i \in 0..(Len(text) - Len(part)) : SubSeq(text, i + 1, i + Len(part)) = part

\* the upstream answered 2xx with a JSON body
JsonBody(resp) == resp.transport = "response" /\ is_success(resp.status) /\ resp.json

\* the value at data.<field> of an error-free 2xx body, absent when there is none
Missing == [t |-> "missing"]
DataField(resp, field) ==
    IF /\ JsonBody(resp)
       /\ "errors" \notin DOMAIN resp.body.v
       /\ "data" \in DOMAIN resp.body.v
       /\ resp.body.v["data"].t = "obj"
       /\ field \in DOMAIN resp.body.v["data"].v
    THEN resp.body.v["data"].v[field]
    ELSE Missing

\* C1: every tool call, whatever the name, the arguments and the outcome of
\* the client, ends with one text result and raises nothing to the host; the
\* text begins with [ERROR] whenever the client failed (construction, request,
\* time format, connection test).
C1_AlwaysText ==
    (pc = "answered" /\ call.kind = "tool") =>
        /\ result.raised = "none"
        /\ Len(result.text) > 0
        /\ (result.failure.site # "none" => result.text[1] = "[ERROR]")

\* a stop request that met a server error and was answered with an [ERROR] text
C1_Witness ==
    /\ ToolAnswered("stop_session_timer")
    /\ result.failure.site = "server_error"
    /\ result.text[1] = "[ERROR]"
    /\ result.raised = "none"

\* the three conditions of the create_session gate as the claim words them
TimeMissing ==
    ~Truthy(Arg(CallArgs, "start_time")) /\ ~Truthy(Arg(CallArgs, "end_time"))
TitleMissing == ~Truthy(Arg(CallArgs, "title"))
DurationOutside ==
    /\ "duration_minutes" \in DOMAIN CallArgs.v
    /\ (CallArgs.v["duration_minutes"].v < 5 \/ CallArgs.v["duration_minutes"].v > 480)

\* C2: with a token configured, a create_session call with no start and end
\* time, or no title, or an integer duration below 5 or above 480 is answered
\* with [CONFIRM] and sends nothing; the createSession mutation is sent only
\* when none of the three holds.
C2_GateBlocks ==
    (ToolAnswered("create_session") /\ Configured) =>
        /\ (TimeMissing \/ TitleMissing \/ DurationOutside) =>
              (result.text[1] = "[CONFIRM]" /\ result.requests = <<>>)
        /\ result.requests # <<>> => ~(TimeMissing \/ TitleMissing \/ DurationOutside)

\* stop_session_timer without confirm, or with confirm false
Unconfirmed ==
    /\ ToolAnswered("stop_session_timer")
    /\ ~Truthy(ArgOr(CallArgs, "confirm", JBool(FALSE)))
Confirmed ==
    /\ ToolAnswered("stop_session_timer")
    /\ Truthy(ArgOr(CallArgs, "confirm", JBool(FALSE)))

\* the current session reported to the call, Missing or null when none is
ReportedSession == DataField(result.resp, "currentSession")

\* C3: an unconfirmed stop_session_timer to which the upstream reports a
\* current session sends the current-session query and nothing else, leaves
\* that session running, and returns a [CONFIRM] text with the session's id,
\* its title and the instruction to call again with confirm=true.
C3_PromptOnly ==
    (Unconfirmed /\ ReportedSession.t = "obj" /\ Truthy(ReportedSession)) =>
        /\ Ops(result.requests) = <<"currentSession">>
        /\ currentSession # 0
        /\ SessionObj(currentSession) = ReportedSession
        /\ result.text[1] = "[CONFIRM]"
        /\ Within(result.text, <<"  - zh:session ID: ">> \o ReportedSession.v["id"].v)
        /\ (ReportedSession.v["title"].t = "str" =>
              Within(result.text, <<"  - zh:title: ">> \o ReportedSession.v["title"].v))
        /\ Within(result.text,
                  <<"zh:to confirm, call stop_session_timer again with confirm=true">>)

\* the prompt for the titled session, which is still running
C3_Witness ==
    /\ Unconfirmed
    /\ currentSession = 1
    /\ result.text[1] = "[CONFIRM]"
    /\ Within(result.text, <<"  - zh:title: ", "Deep work">>)
    /\ Ops(result.requests) = <<"currentSession">>

\* the session the stop mutation answered with, Missing or null when none is
StoppedSession ==
    IF /\ DataField(result.resp, "stopSessionTimer").t = "obj"
       /\ "session" \in DOMAIN DataField(result.resp, "stopSessionTimer").v
    THEN DataField(result.resp, "stopSessionTimer").v["session"]
    ELSE Missing

\* C4: with a token configured, stop_session_timer with confirm=true sends
\* exactly one request, the stopSessionTimer mutation, and when the upstream
\* answers with the session it stopped the text is a [SUCCESS] with that
\* session's id and end time.
C4_ConfirmedStops ==
    (Confirmed /\ Configured) =>
        /\ Ops(result.requests) = <<"stopSessionTimer">>
        /\ (StoppedSession.t = "obj" /\ Truthy(StoppedSession)) =>
              /\ result.text[1] = "[SUCCESS]"
              /\ Within(result.text, StoppedSession.v["id"].v)
              /\ Within(result.text, StoppedSession.v["endTime"].v)

\* C5: an unconfirmed stop_session_timer to which the upstream reports no
\* current session returns the "no active session" [INFO] text: the only
\* request is the current-session query and no confirmation is asked for.
C5_NoSessionInfo ==
    (Unconfirmed /\ ReportedSession = JNull) =>
        /\ Ops(result.requests) = <<"currentSession">>
        /\ result.text = <<"[INFO]", " zh:there is no active session to stop.">>

\* no session is running and the call says so
C5_Witness ==
    /\ Unconfirmed
    /\ currentSession = 0
    /\ ReportedSession = JNull
    /\ result.text[1] = "[INFO]"
    /\ Ops(result.requests) = <<"currentSession">>

\* C6: a name outside the catalog is answered with "[ERROR] Unknown tool:
\* <name>", nothing raised and nothing sent; a name of the catalog is never
\* answered with the unknown-tool text.
C6_UnknownTool ==
    (pc = "answered" /\ call.kind = "tool") =>
        IF call.name \notin ToolNames
        THEN /\ result.text = <<"[ERROR]", " Unknown tool: ", call.name>>
             /\ result.raised = "none"
             /\ result.requests = <<>>
        ELSE /\ Len(result.text) >= 2
             /\ result.text[2] # " Unknown tool: "

\* a name that differs from a catalog name only in its case
C6_Witness ==
    /\ ToolAnswered("Test_Connection")
    /\ result.text = <<"[ERROR]", " Unknown tool: ", "Test_Connection">>
    /\ result.requests = <<>>

\* C7: a non-2xx status ends execute_query with exactly one class of
\* failure: 401 authentication, 429 rate limit, 500 and above a
\* ConnectionError, every other status the generic HTTP failure whose message
\* carries the status code and the raw body.
C7_StatusClasses ==
    (pc = "answered" /\ result.resp.transport = "response"
       /\ ~is_success(result.resp.status)) =>
        CASE result.resp.status = 401 ->
                result.failure.site = "authentication" /\ result.failure.class = "ValueError"
          [] result.resp.status = 429 ->
                result.failure.site = "rate_limit" /\ result.failure.class = "ValueError"
          [] result.resp.status >= 500 ->
                result.failure.site = "server_error"
                   /\ result.failure.class = "ConnectionError"
          [] OTHER ->
                /\ result.failure.site = "http"
                /\ result.failure.class = "ValueError"
                /\ Within(result.failure.msg, <<ToString(result.resp.status), ": ",
                                                "<response.text>">>)

\* a 429 answered as a rate-limit failure, not as a connection failure
C7_Witness ==
    /\ pc = "answered"
    /\ result.resp.status = 429
    /\ result.failure.site = "rate_limit"
    /\ result.failure.class # "ConnectionError"

\* C8: a 2xx body with an `errors` collection is never returned: execute_query
\* fails with the GraphQL-error class, its message the entries' messages
\* joined by semicolons, and not with the unknown-error class or another one.
C8_GraphQLClass ==
    (pc = "answered" /\ JsonBody(result.resp)
       /\ "errors" \in DOMAIN result.resp.body.v
       /\ result.resp.body.v["errors"].t = "list"
       /\ \A i \in 1..Len(result.resp.body.v["errors"].v) :
             "message" \in DOMAIN result.resp.body.v["errors"].v[i].v) =>
        /\ result.failure.site = "graphql"
        /\ result.failure.class = "ValueError"

\* what a direct create_session call was given and what it sent
Given(k) == call.arguments.v[k]
SentArgs == result.requests[1].variables.v["input"].v["args"].v
Minutes(ts) == ts.date * 1440 + ts.hh * 60 + ts.mm
Parseable(j) == j.t = "time" /\ ~parse_time_string(j.v).exc
AsSent(j) == JTime(IsoformatZ(parse_time_string(j.v).val))
SentSpan == Minutes(SentArgs["endTime"].v) - Minutes(SentArgs["startTime"].v)
SameSecond ==
    /\ SentArgs["endTime"].v.ss = SentArgs["startTime"].v.ss
    /\ SentArgs["endTime"].v.us = SentArgs["startTime"].v.us

\* C9: the window RizeClient.create_session sends, for parseable bounds and
\* every duration: only start given, end = start + duration; only end given,
\* start = end - duration; both given, the two parsed bounds whatever the
\* duration; neither given, start = the current time and end = start + duration.
C9_Window ==
    (pc = "answered" /\ call.kind = "client" /\ Configured) =>
        CASE Truthy(Given("start_time")) /\ Truthy(Given("end_time")) ->
                (Parseable(Given("start_time")) /\ Parseable(Given("end_time"))) =>
                    /\ Ops(result.requests) = <<"createSession">>
                    /\ SentArgs["startTime"] = AsSent(Given("start_time"))
                    /\ SentArgs["endTime"] = AsSent(Given("end_time"))
          [] Truthy(Given("start_time")) /\ ~Truthy(Given("end_time")) ->
                Parseable(Given("start_time")) =>
                    /\ Ops(result.requests) = <<"createSession">>
                    /\ SentArgs["startTime"] = AsSent(Given("start_time"))
                    /\ SentSpan = Given("duration_minutes").v
                    /\ SameSecond
          [] ~Truthy(Given("start_time")) /\ Truthy(Given("end_time")) ->
                Parseable(Given("end_time")) =>
                    /\ Ops(result.requests) = <<"createSession">>
                    /\ SentArgs["endTime"] = AsSent(Given("end_time"))
                    /\ SentSpan = Given("duration_minutes").v
                    /\ SameSecond
          [] OTHER ->
                /\ Ops(result.requests) = <<"createSession">>
                /\ SentArgs["startTime"] = Given("now")
                /\ SentSpan = Given("duration_minutes").v
                /\ SameSecond

\* only the end is given and the start falls on the day before
C9_Witness ==
    /\ pc = "answered" /\ call.kind = "client"
    /\ ~Truthy(Given("start_time"))
    /\ Parseable(Given("end_time"))
    /\ Given("duration_minutes").v = MaxDurationMinutes
    /\ Ops(result.requests) = <<"createSession">>
    /\ SentArgs["startTime"].v.date < SentArgs["endTime"].v.date
    /\ SentSpan = MaxDurationMinutes

C11_SingleRequest ==
    pc = "answered" =>
        /\ Len(result.requests) <= 1
        /\ (result.resp.transport # "none" => Len(result.requests) = 1)
        /\ (result.requests = <<>> => result.resp = NoResp)

\* a read timeout ends the call after its only request
C11_Witness ==
    /\ ToolAnswered("list_projects")
    /\ result.resp.transport = "ReadTimeout"
    /\ result.failure.class = "ConnectionError"
    /\ Len(result.requests) = 1

\* the answer c describes is the one the call being answered received
AnswersAs(c) ==
    \/ result'.requests = <<>>
    \/ /\ c.transport = result'.resp.transport
       /\ Respond(result'.requests[1].op, result'.requests[1].variables, c, currentSession)
            = result'.resp

\* C12: what a tool call returns and sends is handle_call_tool of the name,
\* the arguments, the token, the clock and the upstream's answer to that
\* call, whatever the history of earlier calls holds; in particular a
\* confirmed stop sends the stop mutation whether or not a prompt preceded it.
C12_NoMemory ==
    [][(pc' = "answered" /\ call'.kind = "tool") =>
          /\ \E c \in Choices, now \in Clock :
                /\ AnswersAs(c)
                /\ result' = handle_call_tool(api_token, call'.name, call'.arguments,
                                              now, c, currentSession)
          /\ (api_token # <<>> /\ call'.name = "stop_session_timer"
                /\ Truthy(ArgOr(ArgsOf(call'.arguments), "confirm", JBool(FALSE)))) =>
                Ops(result'.requests) = <<"stopSessionTimer">>]_vars

\* a confirmed stop carried out in a process that never showed a prompt
C12_Witness ==
    /\ Confirmed
    /\ prompted = 0
    /\ Ops(result.requests) = <<"stopSessionTimer">>
    /\ result.text[1] = "[SUCCESS]"

\* C13: a confirmed stop carries nothing of the prompt: its one request is
\* the stop mutation with an empty input, no query precedes it, and when it
\* reports [SUCCESS] the session stopped is the upstream's current one at that
\* moment and the text is the plain success text, also when the prompt named
\* another session.
C13_StopsCurrent ==
    [][(pc' = "answered" /\ call'.kind = "tool" /\ call'.name = "stop_session_timer"
          /\ Truthy(ArgOr(ArgsOf(call'.arguments), "confirm", JBool(FALSE)))
          /\ api_token # <<>>) =>
          /\ result'.requests =
                <<[op |-> "stopSessionTimer", variables |-> JObj([input |-> EmptyDict])]>>
          /\ prompted' = prompted
          /\ result'.text[1] = "[SUCCESS]" =>
                /\ currentSession # 0
                /\ currentSession' = 0
                /\ result'.text = <<"[SUCCESS]", " Timer stopped! Session ID: ",
                                    ToString(currentSession), ", End time: ",
                                    "end-of-", ToString(currentSession)>>]_vars

\* the prompt named session 1, the upstream moved on to session 2, and the
\* confirmed stop ended session 2 and reported success
C13_Witness ==
    /\ Confirmed
    /\ prompted = 1
    /\ StoppedSession.t = "obj"
    /\ StoppedSession.v["id"] = Str("2")
    /\ currentSession = 0
    /\ result.text[1] = "[SUCCESS]"
    /\ ~Within(result.text, <<"1">>)

\* C14: when the upstream answers 401 and the token has at least 12
\* characters, the message ends with the token's first 8 characters, "..." and
\* its last 4, 15 characters in all, and no character of the token between
\* those two slices is in the message.
ClientAnswered == pc = "answered" /\ call.kind = "client"
Width(tok) == IF tok = "..." THEN 3 ELSE 1
RECURSIVE Chars(_)
Chars(q) == IF q = <<>> THEN 0 ELSE Width(Head(q)) + Chars(Tail(q))
AuthFixedText == <<"zh:API authentication failed", "zh:current token: ">>
ShownToken == SubSeq(result.failure.msg, Len(AuthFixedText) + 1, Len(result.failure.msg))
C14_Redacted ==
    (ClientAnswered /\ result.resp.transport = "response" /\ result.resp.status = 401
        /\ Len(api_token) >= RedactHead + RedactTail) =>
        /\ result.failure.site = "authentication"
        /\ SubSeq(result.failure.msg, 1, Len(AuthFixedText)) = AuthFixedText
        /\ ShownToken = SubSeq(api_token, 1, RedactHead) \o <<"...">>
                          \o SubSeq(api_token, Len(api_token) - RedactTail + 1, Len(api_token))
        /\ Chars(ShownToken) = 15
        /\ \A i \in (RedactHead + 1)..(Len(api_token) - RedactTail) :
              \A j \in 1..Len(result.failure.msg) : result.failure.msg[j] # api_token[i]

C14_Witness ==
    /\ ClientAnswered
    /\ call.name = "get_projects"
    /\ result.failure.site = "authentication"
    /\ result.raised = "ValueError"
    /\ Len(api_token) > RedactHead + RedactTail
    /\ Chars(ShownToken) = 15

\* C15: in every request of a client operation that has optional arguments,
\* the key of an optional argument is in the request's variables exactly when
\* the caller passed a value other than None for it, and then with that value.
VariableKey(k) ==
    CASE k = "client_id" -> "clientId"
      [] k = "project_id" -> "projectId"
      [] k = "assignee_id" -> "assigneeId"
      [] k = "time_budget" -> "timeBudget"
      [] k = "time_budget_interval" -> "timeBudgetInterval"
      [] OTHER -> k
OperationsWithOptionals ==
    { "create_project", "update_project", "create_task", "update_task", "get_tasks",
      "update_session", "create_session" }
SentInput ==
    CASE call.name = "get_tasks" -> result.requests[1].variables.v
      [] call.name = "create_session" -> result.requests[1].variables.v["input"].v["args"].v
      [] OTHER -> result.requests[1].variables.v["input"].v
C15_OptionalKeys ==
    (ClientAnswered /\ call.name \in OperationsWithOptionals /\ Len(result.requests) = 1) =>
        \A k \in DOMAIN call.arguments.v :
            /\ VariableKey(k) \in DOMAIN SentInput <=> call.arguments.v[k] # JNull
            /\ VariableKey(k) \in DOMAIN SentInput =>
                  SentInput[VariableKey(k)] = call.arguments.v[k]

\* what the operations do: the update operations send every argument that is
\* not None; create_project, create_task, get_tasks and create_session send
\* an argument only when it is truthy
C15_KeysAsCoded ==
    (ClientAnswered /\ call.name \in OperationsWithOptionals /\ Len(result.requests) = 1) =>
        \A k \in DOMAIN call.arguments.v :
            /\ VariableKey(k) \in DOMAIN SentInput <=>
                  IF call.name \in {"update_project", "update_task", "update_session"}
                  THEN call.arguments.v[k] # JNull
                  ELSE Truthy(call.arguments.v[k])
            /\ VariableKey(k) \in DOMAIN SentInput =>
                  SentInput[VariableKey(k)] = call.arguments.v[k]

\* C16: a connect timeout, a read (overall) timeout and any other failure of
\* the transport each end execute_query with a ConnectionError, after the one
\* request, never with an error of the ValueError class.
C16_TransportClass ==
    (ClientAnswered /\ result.resp.transport \in TransportFailures) =>
        /\ Len(result.requests) = 1
        /\ result.failure.class = "ConnectionError"
        /\ result.failure.site =
              IF result.resp.transport = "ConnectTimeout" THEN "connect_timeout" ELSE "network"
        /\ call.name # "test_connection" => result.raised = "ConnectionError"

C16_Witness ==
    /\ ClientAnswered
    /\ call.name = "get_current_session"
    /\ result.resp.transport = "ReadTimeout"
    /\ result.failure.site = "network"
    /\ result.raised = "ConnectionError"

\* C17: a start_time or end_time string that parse_time_string does not accept
\* makes RizeClient.create_session fail with the format error, no request
\* built or sent; the create_session tool then answers [ERROR].
Unparseable(j) == j.t = "time" /\ parse_time_string(j.v).exc
C17_FormatError ==
    /\ (ClientAnswered /\ call.name = "create_session" /\ Configured
          /\ (Unparseable(Given("start_time")) \/ Unparseable(Given("end_time")))) =>
          /\ result.requests = <<>>
          /\ result.failure.site = "parse_time_string"
          /\ result.raised = "ValueError"
    /\ (ToolAnswered("create_session") /\ Configured
          /\ (Unparseable(Arg(CallArgs, "start_time")) \/ Unparseable(Arg(CallArgs, "end_time")))) =>
          /\ result.text[1] \in {"[ERROR]", "[CONFIRM]"}
          /\ result.requests = <<>>

\* the same for the strings create_session looks at: the empty string counts
\* as no time given, and with both bounds given the first failure ends the call
C17_NonEmptyRejected ==
    /\ (ClientAnswered /\ call.name = "create_session" /\ Configured
          /\ \/ Truthy(Given("start_time")) /\ Unparseable(Given("start_time"))
             \/ Truthy(Given("end_time")) /\ Unparseable(Given("end_time"))) =>
          /\ result.requests = <<>>
          /\ result.failure.site = "parse_time_string"
          /\ result.raised = "ValueError"
    /\ (ToolAnswered("create_session") /\ Configured
          /\ \/ Truthy(Arg(CallArgs, "start_time")) /\ Unparseable(Arg(CallArgs, "start_time"))
             \/ Truthy(Arg(CallArgs, "end_time")) /\ Unparseable(Arg(CallArgs, "end_time"))) =>
          /\ result.text[1] \in {"[ERROR]", "[CONFIRM]"}
          /\ result.requests = <<>>

\* C18: every client opened by execute_query is closed when the call ends,
\* with a result or with any error; while the server waits for the next
\* invocation, and when an answer is handed back, no connection is open.
C18_NoOpenConnection ==
    /\ open_connections = 0
    /\ pc = "answered" => result.open = 0

C18_Witness ==
    /\ ToolAnswered("create_project")
    /\ Len(result.requests) = 1
    /\ result.failure.site = "server_error"
    /\ result.text[1] = "[ERROR]"
    /\ open_connections = 0

\* C19: when the upstream's project list is empty, list_projects answers the
\* informational text that points to create_project; its text is never empty
\* and never a success line counting 0 projects.
EmptyProjects ==
    /\ DataField(result.resp, "projects").t = "obj"
    /\ "edges" \in DOMAIN DataField(result.resp, "projects").v
    /\ DataField(result.resp, "projects").v["edges"] = JList(<<>>)
C19_EmptyList ==
    ToolAnswered("list_projects") =>
        /\ EmptyProjects =>
              /\ result.text = <<"[INFO]", " No projects found. Use create_project to create one.">>
              /\ Len(result.requests) = 1
        /\ result.text # <<>>
        /\ result.text[1] = "[SUCCESS]" => result.text[3] # "0"

C19_Witness ==
    /\ ToolAnswered("list_projects")
    /\ EmptyProjects
    /\ result.text[1] = "[INFO]"
    /\ Within(result.text, <<" No projects found. Use create_project to create one.">>)

\* C20: the text of every successful tool call is one line without emoji: no
\* line break and no emoji character, whatever the upstream returned.
NeitherBreakNorEmoji(text) == \A i \in 1..Len(text) : text[i] \notin {"\n", "<emoji>"}
C20_SingleLineAscii ==
    (pc = "answered" /\ call.kind = "tool" /\ result.text[1] = "[SUCCESS]") =>
        NeitherBreakNorEmoji(result.text)

\* the success texts other than the project list and the created project,
\* for the sessions of the model, whose titles hold no emoji
C20_SessionTexts ==
    (pc = "answered" /\ call.kind = "tool" /\ result.text[1] = "[SUCCESS]"
        /\ call.name \notin {"list_projects", "create_project"}) =>
        NeitherBreakNorEmoji(result.text)

\* C21: in create_project, start_session_timer, the confirmed
\* stop_session_timer and create_session, a mutation payload with an `errors`
\* key, whatever its value and whatever else the payload holds, is answered
\* [ERROR]; [SUCCESS] is answered only for a payload without that key whose
\* object is not empty.
MutationOps == {"createProject", "startSessionTimer", "stopSessionTimer", "createSession"}
MutationAnswered ==
    /\ pc = "answered" /\ call.kind = "tool"
    /\ Len(result.requests) = 1
    /\ result.requests[1].op \in MutationOps
MutationPayload ==
    IF /\ JsonBody(result.resp)
       /\ "data" \in DOMAIN result.resp.body.v
       /\ result.resp.body.v["data"].t = "obj"
       /\ result.requests[1].op \in DOMAIN result.resp.body.v["data"].v
    THEN result.resp.body.v["data"].v[result.requests[1].op]
    ELSE Missing
C21_ErrorsKey ==
    MutationAnswered =>
        /\ (MutationPayload.t = "obj" /\ "errors" \in DOMAIN MutationPayload.v) =>
              result.text[1] = "[ERROR]"
        /\ result.text[1] = "[SUCCESS]" =>
              /\ MutationPayload.t = "obj"
              /\ "errors" \notin DOMAIN MutationPayload.v
              /\ ObjectKey(result.requests[1].op) \in DOMAIN MutationPayload.v
              /\ Truthy(MutationPayload.v[ObjectKey(result.requests[1].op)])
        /\ result.text[1] \in {"[ERROR]", "[SUCCESS]"}

\* the project was created, the payload carries it beside `errors: []`, and
\* the answer is [ERROR]
C21_Witness ==
    /\ MutationAnswered
    /\ call.name = "create_project"
    /\ MutationPayload.t = "obj"
    /\ "errors" \in DOMAIN MutationPayload.v
    /\ MutationPayload.v["errors"] = JList(<<>>)
    /\ Truthy(MutationPayload.v["project"])
    /\ result.text[1] = "[ERROR]"

\* C22: session_type has no effect on what is sent: the requests of a
\* start_session_timer or create_session call are those of the same call, at
\* the same clock reading, with any other session_type or with none, and no
\* request carries the session type.
SessionTypes == { Absent, Str("FOCUS"), Str("break"), Str("meeting") }
WithSessionType(arguments, st) ==
    Mapping([k \in DOMAIN ArgsOf(arguments).v \cup {"session_type"} |->
               IF k = "session_type" THEN st ELSE ArgsOf(arguments).v[k]])
AnyAnswer == CHOOSE c \in Choices : c.transport = "ConnectTimeout"
RequestsWith(st, now) ==
    handle_call_tool(api_token, call.name, WithSessionType(call.arguments, st), now,
                     AnyAnswer, 0).requests
C22_SessionTypeUnused ==
    (pc = "answered" /\ call.kind = "tool"
        /\ call.name \in {"start_session_timer", "create_session"}) =>
        /\ \E now \in Clock : \A st \in SessionTypes : RequestsWith(st, now) = result.requests
        /\ \A i \in 1..Len(result.requests) :
              /\ result.requests[i].op = "startSessionTimer" =>
                    DOMAIN result.requests[i].variables.v["input"].v = {"clientMutationId"}
              /\ result.requests[i].op = "createSession" =>
                    DOMAIN result.requests[i].variables.v["input"].v["args"].v
                        \subseteq {"startTime", "endTime", "title", "description"}

C22_Witness ==
    /\ ToolAnswered("create_session")
    /\ Arg(CallArgs, "session_type") = Str("break")
    /\ Ops(result.requests) = <<"createSession">>
    /\ \E now \in Clock : RequestsWith(Str("FOCUS"), now) = result.requests
    /\ result.text[1] = "[SUCCESS]"

\* C23: every text a tool call returns begins with one of the tags [OK],
\* [SUCCESS], [INFO], [CONFIRM], [ERROR], followed by text that is not a tag;
\* [SUCCESS] and [OK] are returned only when the one request of the call was
\* answered and neither the client nor the handler met a failure.
Tags == {"[OK]", "[SUCCESS]", "[INFO]", "[CONFIRM]", "[ERROR]"}
C23_StatusPrefix ==
    (pc = "answered" /\ call.kind = "tool") =>
        /\ Len(result.text) >= 2
        /\ result.text[1] \in Tags
        /\ result.text[2] \notin Tags
        /\ result.text[1] \in {"[SUCCESS]", "[OK]"} =>
              /\ Len(result.requests) = 1
              /\ result.failure = NoFailure
              /\ JsonBody(result.resp)
              /\ "errors" \notin DOMAIN result.resp.body.v
        /\ result.text[1] = "[OK]" <=> (call.name = "test_connection" /\ result.failure = NoFailure)

C23_Witness ==
    /\ ToolAnswered("test_connection")
    /\ result.text[1] = "[OK]"
    /\ Ops(result.requests) = <<"currentUser">>
    /\ result.failure = NoFailure
    /\ is_success(result.resp.status)

\* C24: for a token of fewer than 12 characters the 401 message hides
\* nothing: its head slice (at most 8 characters) and tail slice (at most 4)
\* cover the token, so every character is in the message and the token is the
\* head followed by the part of the tail the head does not hold; the shown
\* part is at most 15 characters long.
Least(a, b) == IF a < b THEN a ELSE b
ShownHead == SubSeq(ShownToken, 1, Least(RedactHead, Len(api_token)))
ShownTail == SubSeq(ShownToken, Len(ShownHead) + 2, Len(ShownToken))
Overlap == Len(ShownHead) + Len(ShownTail) - Len(api_token)
C24_ShortTokenDisclosed ==
    (ClientAnswered /\ result.resp.transport = "response" /\ result.resp.status = 401
        /\ Len(api_token) > 0 /\ Len(api_token) < RedactHead + RedactTail) =>
        /\ result.failure.site = "authentication"
        /\ SubSeq(result.failure.msg, 1, Len(AuthFixedText)) = AuthFixedText
        /\ Len(ShownToken) = Len(ShownHead) + 1 + Least(RedactTail, Len(api_token))
        /\ ShownToken[Len(ShownHead) + 1] = "..."
        /\ Overlap >= 0
        /\ ShownHead \o SubSeq(ShownTail, Overlap + 1, Len(ShownTail)) = api_token
        /\ \A i \in 1..Len(api_token) : \E j \in 1..Len(ShownToken) : ShownToken[j] = api_token[i]
        /\ Chars(ShownToken) <= 15

\* a token of three characters is shown twice, before and after the dots
C24_Witness ==
    /\ ClientAnswered
    /\ call.name = "test_connection"
    /\ result.failure.site = "authentication"
    /\ Len(api_token) = 3
    /\ ShownToken = api_token \o <<"...">> \o api_token

====
